---------------------------- MODULE Spec2Model ----------------------------
(***************************************************************************)
(* inifmt (main.go): the two formatting operations alignIni and            *)
(* singleSpaceFormat, with alignSection, modelled on lines that are         *)
(* sequences of bytes.  A byte is a one-character string, except the two    *)
(* bytes of the UTF-8 encoding of U+00E9, which are named "C3" and "A9".    *)
(***************************************************************************)
EXTENDS Integers, Sequences, FiniteSets

VARIABLES input, cfg, pc, out, out2

vars == <<input, cfg, pc, out, out2>>

---------------------------------------------------------------------------
(* Bytes *)

SP == " "
TAB == "\t"
FF == "\f"
EQ == "="
LB == "["
RB == "]"
SEMI == ";"
HASH == "#"
LEAD == "C3"
CONT == "A9"

\* the cutset " \t" of strings.TrimRight(line, " \t")
CutSet == {SP, TAB}

\* unicode.IsSpace, as strings.TrimSpace and strings.Fields use it
\* (form feed stands for the white space that is neither ' ' nor '\t')
IsSpace(c) == c \in {SP, TAB, FF}

---------------------------------------------------------------------------
(* package strings *)

\* s[lo:hi]
Slice(s, lo, hi) == SubSeq(s, lo + 1, hi)

\* s[lo:]
SliceFrom(s, lo) == SubSeq(s, lo + 1, Len(s))

RECURSIVE TrimRight(_, _)
TrimRight(s, cutset) ==
    IF s = <<>> \/ s[Len(s)] \notin cutset
    THEN s
    ELSE TrimRight(SubSeq(s, 1, Len(s) - 1), cutset)

RECURSIVE TrimRightSpace(_)
TrimRightSpace(s) ==
    IF s = <<>> \/ ~IsSpace(s[Len(s)])
    THEN s
    ELSE TrimRightSpace(SubSeq(s, 1, Len(s) - 1))

RECURSIVE TrimLeftSpace(_)
TrimLeftSpace(s) ==
    IF s = <<>> \/ ~IsSpace(s[1])
    THEN s
    ELSE TrimLeftSpace(Tail(s))

TrimSpace(s) == TrimLeftSpace(TrimRightSpace(s))

\* strings.HasPrefix(s, p) for a one-byte p
HasPrefix(s, c) == s # <<>> /\ s[1] = c

\* strings.Index(s, c) for a one-byte c: the 0-based offset of the first c, or -1
Index(s, c) ==
    IF \E i \in 1..Len(s) : s[i] = c
    THEN (CHOOSE i \in 1..Len(s) : s[i] = c /\ \A j \in 1..(i - 1) : s[j] # c) - 1
    ELSE -1

Contains(s, c) == Index(s, c) >= 0

\* strings.Repeat(c, n)
Repeat(c, n) == [i \in 1..n |-> c]

\* the length of the first word of s, which starts with a non-space byte
WordLen(s) ==
    IF \E i \in 1..Len(s) : IsSpace(s[i])
    THEN (CHOOSE i \in 1..Len(s) : IsSpace(s[i]) /\ \A j \in 1..(i - 1) : ~IsSpace(s[j])) - 1
    ELSE Len(s)

\* strings.Fields(s): the words of s, split around runs of white space
RECURSIVE Fields(_)
Fields(s) ==
    LET t == TrimLeftSpace(s)
    IN  IF t = <<>>
        THEN <<>>
        ELSE <<SubSeq(t, 1, WordLen(t))>> \o Fields(SliceFrom(t, WordLen(t)))

\* strings.Join(elems, sep)
RECURSIVE Join(_, _)
Join(elems, sep) ==
    IF elems = <<>> THEN <<>>
    ELSE IF Len(elems) = 1 THEN elems[1]
    ELSE elems[1] \o sep \o Join(Tail(elems), sep)

---------------------------------------------------------------------------
(* main.go *)

\* trimmed == "" || HasPrefix(trimmed, ";") || HasPrefix(trimmed, "#")
IsCommentOrBlank(trimmed) ==
    trimmed = <<>> \/ HasPrefix(trimmed, SEMI) \/ HasPrefix(trimmed, HASH)

\* HasPrefix(trimmed, "[") with an Index(trimmed, "]") != -1
IsHeader(trimmed) == HasPrefix(trimmed, LB) /\ Index(trimmed, RB) # -1

\* alignIni, the body of the first loop: the line as stored back in lines[i]
NormalizeLine(line) ==
    LET raw == TrimRight(line, CutSet)
        trimmed == TrimSpace(raw)
        idx == Index(trimmed, RB)
        header == Slice(trimmed, 0, idx + 1)
        rest == TrimSpace(SliceFrom(trimmed, idx + 1))
        marker == Slice(rest, 0, 1)
        text == TrimSpace(SliceFrom(rest, 1))
    IN  IF IsHeader(trimmed)
        THEN IF rest # <<>>
             THEN header \o <<SP>> \o marker \o <<SP>> \o text
             ELSE header
        ELSE raw

\* KeyLen counting the offset of the '=' in the line, not the trimmed key
KeyLenRawOffset(line, includeComments) ==
    LET trimmed == TrimSpace(line)
        eqPos == Index(line, EQ)
    IN  IF ~includeComments /\ IsCommentOrBlank(trimmed) THEN 0
        ELSE IF eqPos < 0 THEN 0
        ELSE eqPos

\* alignSection, first pass: the key length a line contributes (0 when skipped)
KeyLen(line, includeComments) ==
    LET trimmed == TrimSpace(line)
        eqPos == Index(line, EQ)
    IN  IF ~includeComments /\ IsCommentOrBlank(trimmed) THEN 0
        ELSE IF eqPos < 0 THEN 0
        ELSE Len(TrimSpace(Slice(line, 0, eqPos)))

\* alignSection, first pass: maxKeyLen over the lines
RECURSIVE MaxKeyLen(_, _)
MaxKeyLen(lines, includeComments) ==
    IF lines = <<>> THEN 0
    ELSE LET l == KeyLen(lines[Len(lines)], includeComments)
             m == MaxKeyLen(SubSeq(lines, 1, Len(lines) - 1), includeComments)
         IN  IF l > m THEN l ELSE m

\* AlignLine keeping the value as it stands, without strings.Fields
AlignLineRawValue(line, maxKeyLen, includeComments) ==
    LET original == TrimRight(line, CutSet)
        trimmed == TrimSpace(original)
        padWidth == maxKeyLen + 3
        eqPos == Index(original, EQ)
        key == TrimSpace(Slice(original, 0, eqPos))
        right == SliceFrom(original, eqPos + 1)
        spacesNeeded == IF maxKeyLen - Len(key) < 0 THEN 0 ELSE maxKeyLen - Len(key)
    IN  IF IsCommentOrBlank(trimmed)
        THEN IF includeComments /\ Len(original) < padWidth
             THEN original \o Repeat(SP, padWidth - Len(original))
             ELSE original
        ELSE IF eqPos < 0
        THEN original
        ELSE key \o Repeat(SP, spacesNeeded) \o <<SP, EQ, SP>> \o right

\* AlignLine padding comment and blank lines whatever includeComments is
AlignLinePadsAlways(line, maxKeyLen, includeComments) ==
    LET original == TrimRight(line, CutSet)
        trimmed == TrimSpace(original)
        padWidth == maxKeyLen + 3
        eqPos == Index(original, EQ)
        key == TrimSpace(Slice(original, 0, eqPos))
        right == Join(Fields(SliceFrom(original, eqPos + 1)), <<SP>>)
        spacesNeeded == IF maxKeyLen - Len(key) < 0 THEN 0 ELSE maxKeyLen - Len(key)
    IN  IF IsCommentOrBlank(trimmed)
        THEN IF Len(original) < padWidth
             THEN original \o Repeat(SP, padWidth - Len(original))
             ELSE original
        ELSE IF eqPos < 0
        THEN original
        ELSE key \o Repeat(SP, spacesNeeded) \o <<SP, EQ, SP>> \o right

\* alignSection, the body of the second loop: the line appended to result
AlignLine(line, maxKeyLen, includeComments) ==
    LET original == TrimRight(line, CutSet)
        trimmed == TrimSpace(original)
        padWidth == maxKeyLen + 3
        eqPos == Index(original, EQ)
        key == TrimSpace(Slice(original, 0, eqPos))
        right == Join(Fields(SliceFrom(original, eqPos + 1)), <<SP>>)
        spacesNeeded == IF maxKeyLen - Len(key) < 0 THEN 0 ELSE maxKeyLen - Len(key)
    IN  IF IsCommentOrBlank(trimmed)
        THEN IF includeComments /\ Len(original) < padWidth
             THEN original \o Repeat(SP, padWidth - Len(original))
             ELSE original
        ELSE IF eqPos < 0
        THEN original
        ELSE key \o Repeat(SP, spacesNeeded) \o <<SP, EQ, SP>> \o right

alignSection(lines, includeComments) ==
    [i \in 1..Len(lines) |-> AlignLine(lines[i], MaxKeyLen(lines, includeComments), includeComments)]

\* flushSection taking a section of one line for an empty one
flushSectionOffByOne(result, sectionLines, includeComments) ==
    IF Len(sectionLines) > 1
    THEN result \o alignSection(sectionLines, includeComments)
    ELSE result

\* alignIni, the closure flushSection: the result after the flush
flushSection(result, sectionLines, includeComments) ==
    IF Len(sectionLines) > 0
    THEN result \o alignSection(sectionLines, includeComments)
    ELSE result

\* alignIni, per-section mode: the header line appended to result
HeaderLine(line) ==
    LET raw == TrimRight(line, CutSet)
        trimmed == TrimSpace(raw)
        idx == Index(trimmed, RB)
        header == Slice(trimmed, 0, idx + 1)
        comment == TrimSpace(SliceFrom(trimmed, idx + 1))
    IN  IF comment # <<>> THEN header \o <<SP>> \o comment ELSE header

\* alignIni, per-section mode: the second loop from line i on, then the last flush
RECURSIVE PerSectionLoop(_, _, _, _, _)
PerSectionLoop(lines, i, result, sectionLines, includeComments) ==
    IF i > Len(lines)
    THEN flushSection(result, sectionLines, includeComments)
    ELSE IF IsHeader(TrimSpace(TrimRight(lines[i], CutSet)))
    THEN PerSectionLoop(lines, i + 1,
             Append(flushSection(result, sectionLines, includeComments), HeaderLine(lines[i])),
             <<>>, includeComments)
    ELSE PerSectionLoop(lines, i + 1, result, Append(sectionLines, lines[i]), includeComments)

\* alignIni without the per-section branch
alignIniGlobalOnly(scanned, perSection, includeComments) ==
    LET lines == [i \in 1..Len(scanned) |-> NormalizeLine(scanned[i])]
    IN  IF Len(scanned) = 0 THEN <<>>
        ELSE alignSection(lines, includeComments)

\* alignIni on the lines the scanner yields
alignIni(scanned, perSection, includeComments) ==
    LET lines == [i \in 1..Len(scanned) |-> NormalizeLine(scanned[i])]
    IN  IF Len(scanned) = 0 THEN <<>>
        ELSE IF ~perSection THEN alignSection(lines, includeComments)
        ELSE PerSectionLoop(lines, 1, <<>>, <<>>, includeComments)

\* singleSpaceFormat, the body of the loop: the line appended to result
SingleSpaceLine(text) ==
    LET line == TrimRight(text, CutSet)
        pos == Index(line, EQ)
        left == TrimSpace(Slice(line, 0, pos))
        right == Join(Fields(SliceFrom(line, pos + 1)), <<SP>>)
    IN  IF pos >= 0 THEN left \o <<SP, EQ, SP>> \o right ELSE line

\* singleSpaceFormat on the lines the scanner yields
singleSpaceFormat(scanned) == [i \in 1..Len(scanned) |-> SingleSpaceLine(scanned[i])]

---------------------------------------------------------------------------
(* The inputs: what the scanner yields, and the flags *)

MaxLines == 3
MaxLen == 4
MaxPairLen == 2

\* lines of each kind the code tells apart, for the inputs of several lines
LinePool ==
    { <<>>,                                               \* blank
      <<SEMI, "k", "k", "k", EQ, "k">>,                   \* comment holding '='
      <<SP, LB, "k", RB, SP, SEMI, "k">>,                 \* indented header with trailing text
      <<LB, "k", "k", RB, EQ, "k">>,                      \* header followed by '='
      <<"k", EQ, "k">>,                                   \* key=value
      <<"k", "k", SP, EQ, SP, "k", SP, TAB, "k", SP>>,    \* spaced key/value, trailing space
      <<EQ>>,                                             \* empty key, empty value
      <<SP, "k", TAB>>,                                   \* no '=', indented, trailing tab
      <<LB, "k", RB, LEAD, CONT>>,                        \* header followed by U+00E9
      <<LB, "k", EQ, "k">> }                              \* '[' without ']'

\* the bytes of the one-line inputs, every line of at most MaxLen of them
Alphabet == {"k", SP, EQ, LB, RB, SEMI, FF}

\* the bytes of the two-line inputs, every two lines of at most MaxPairLen of them
PairAlphabet == {"k", SP, EQ, LB, RB, SEMI}

SeqsUpTo(S, n) == UNION {[1..m -> S] : m \in 0..n}

\* TestAlignSection "basic alignment": key1=val1, longerkey=val2, k=v
ScenarioBasic ==
    << <<"k", "e", "y", "1", EQ, "v", "a", "l", "1">>,
       <<"l", "o", "n", "g", "e", "r", "k", "e", "y", EQ, "v", "a", "l", "2">>,
       <<"k", EQ, "v">> >>

\* TestAlignIni "global alignment": key1=val1, [section1], longkey=val2, k=v
ScenarioSections ==
    << <<"k", "e", "y", "1", EQ, "v", "a", "l", "1">>,
       <<LB, "s", "e", "c", "t", "i", "o", "n", "1", RB>>,
       <<"l", "o", "n", "g", "k", "e", "y", EQ, "v", "a", "l", "2">>,
       <<"k", EQ, "v">> >>

Inputs ==
    SeqsUpTo(LinePool, MaxLines)
        \cup {<<l>> : l \in SeqsUpTo(Alphabet, MaxLen)}
        \cup {<<l, m>> : l, m \in SeqsUpTo(PairAlphabet, MaxPairLen)}
        \cup {ScenarioBasic, ScenarioSections}

\* config without write: singleSpace excludes the two alignment flags
Configs ==
    {c \in [singleSpace : BOOLEAN, perSection : BOOLEAN, includeComments : BOOLEAN] :
        c.singleSpace => ~c.perSection /\ ~c.includeComments}

---------------------------------------------------------------------------
(* The state machine: one run over the input, and for the aligner a second *)
(* run over the output of the first                                        *)

Init ==
    /\ input \in Inputs
    /\ cfg \in Configs
    /\ pc = "start"
    /\ out = <<>>
    /\ out2 = <<>>

\* run with cfg.singleSpace
RunSingleSpace ==
    /\ pc = "start"
    /\ cfg.singleSpace
    /\ out' = singleSpaceFormat(input)
    /\ pc' = "done"
    /\ UNCHANGED <<input, cfg, out2>>

\* run without cfg.singleSpace
RunAlign ==
    /\ pc = "start"
    /\ ~cfg.singleSpace
    /\ out' = alignIni(input, cfg.perSection, cfg.includeComments)
    /\ pc' = "aligned"
    /\ UNCHANGED <<input, cfg, out2>>

\* run again, with the same flags, over the lines the first run wrote
RunAlignAgain ==
    /\ pc = "aligned"
    /\ out2' = alignIni(out, cfg.perSection, cfg.includeComments)
    /\ pc' = "done"
    /\ UNCHANGED <<input, cfg, out>>

Next == RunSingleSpace \/ RunAlign \/ RunAlignAgain

Spec == Init /\ [][Next]_vars

---------------------------------------------------------------------------
(* What the properties speak of *)

\* the first run has returned its result
Ran == pc # "start"

\* the result is alignIni's
Aligned == Ran /\ ~cfg.singleSpace

\* the result is singleSpaceFormat's
SingleSpaced == Ran /\ cfg.singleSpace

\* the kind of input line i
InputIsHeader(i) == IsHeader(TrimSpace(input[i]))
InputIsComment(i) == IsCommentOrBlank(TrimSpace(input[i]))
InputIsKeyValue(i) == ~InputIsHeader(i) /\ ~InputIsComment(i) /\ Contains(input[i], EQ)

\* the header form of a header line: "<header>", "<header> <marker>" or
\* "<header> <marker> <text>", the marker being the first byte after the ']'
HeaderForm(line) ==
    LET t == TrimSpace(line)
        n == Index(t, RB) + 1
        r == TrimSpace(SubSeq(t, n + 1, Len(t)))
    IN  IF r = <<>> THEN SubSeq(t, 1, n)
        ELSE IF TrimSpace(Tail(r)) = <<>> THEN SubSeq(t, 1, n) \o <<SP, r[1]>>
        ELSE SubSeq(t, 1, n) \o <<SP, r[1], SP>> \o TrimSpace(Tail(r))

\* strings.HasSuffix(s, c) for a one-byte c
HasSuffix(s, c) == s # <<>> /\ s[Len(s)] = c

\* strings.Count(s, sub): the non-overlapping occurrences of sub in s
RECURSIVE Count(_, _)
Count(s, sub) ==
    IF Len(s) < Len(sub) THEN 0
    ELSE IF SubSeq(s, 1, Len(sub)) = sub
    THEN 1 + Count(SubSeq(s, Len(sub) + 1, Len(s)), sub)
    ELSE Count(Tail(s), sub)

Delim == <<SP, EQ, SP>>

\* the characters of s: UTF-8 decoding, U+FFFD for a byte that decodes to nothing
RECURSIVE Runes(_)
Runes(s) ==
    IF s = <<>> THEN <<>>
    ELSE IF s[1] = LEAD /\ Len(s) >= 2 /\ s[2] = CONT
    THEN <<"U+00E9">> \o Runes(SubSeq(s, 3, Len(s)))
    ELSE IF s[1] \in {LEAD, CONT}
    THEN <<"U+FFFD">> \o Runes(Tail(s))
    ELSE <<s[1]>> \o Runes(Tail(s))

NotSpace(c) == ~IsSpace(c)

\* the non-whitespace characters of s, in order
NonSpaceRunes(s) == SelectSeq(Runes(s), NotSpace)

\* the non-whitespace bytes of s, in order
NonSpaceBytes(s) == SelectSeq(s, NotSpace)

---------------------------------------------------------------------------
(* C1 *)

---------------------------------------------------------------------------
(* C2 *)

\* C2: alignIni applied to its own output, with the same flags, returns that
\* output unchanged.
Idempotent == (pc = "done" /\ ~cfg.singleSpace) => out2 = out

\* C2 happens: the second run is over a first result that differs from the
\* input and holds a header with trailing text and a padded comment line
IdempotentWitness ==
    /\ pc = "done"
    /\ ~cfg.singleSpace
    /\ cfg.includeComments
    /\ out # input
    /\ out2 = out
    /\ \E i \in 1..Len(input) :
          InputIsHeader(i) /\ Len(TrimSpace(input[i])) > Index(TrimSpace(input[i]), RB) + 1
    /\ \E i \in 1..Len(input) : InputIsComment(i) /\ Len(out[i]) > Len(input[i])

---------------------------------------------------------------------------
(* C3 *)

\* C3: every line singleSpaceFormat returns that holds '=' holds " = " exactly
\* once and ends with no white space.
SingleSpaceInvariant ==
    SingleSpaced =>
        \A i \in 1..Len(out) :
            Contains(out[i], EQ) =>
                /\ Count(out[i], Delim) = 1
                /\ ~(out[i] # <<>> /\ IsSpace(out[i][Len(out[i])]))

---------------------------------------------------------------------------
(* C5 *)

\* C5: every line alignIni returns that holds '=' holds " = " and does not end
\* with a space.
NormalisedDelimiter ==
    Aligned =>
        \A i \in 1..Len(out) :
            Contains(out[i], EQ) =>
                /\ Count(out[i], Delim) >= 1
                /\ ~HasSuffix(out[i], SP)

---------------------------------------------------------------------------
(* C10 *)

\* C10: output line i has the non-whitespace characters of input line i, in the
\* same order, for every i and every mode.
WhitespaceOnly ==
    Ran =>
        /\ Len(out) = Len(input)
        /\ \A i \in 1..Len(input) : NonSpaceRunes(out[i]) = NonSpaceRunes(input[i])

\* what the code keeps instead: the non-whitespace bytes of every line
WhitespaceOnlyBytes ==
    Ran =>
        /\ Len(out) = Len(input)
        /\ \A i \in 1..Len(input) : NonSpaceBytes(out[i]) = NonSpaceBytes(input[i])

---------------------------------------------------------------------------
(* Blocks *)

\* lines lo..hi of the input are a block of per-section mode: a maximal run
\* of lines that are not headers
IsBlock(lo, hi) ==
    /\ lo <= hi
    /\ \A k \in lo..hi : ~InputIsHeader(k)
    /\ lo = 1 \/ InputIsHeader(lo - 1)
    /\ hi = Len(input) \/ InputIsHeader(hi + 1)

\* lines i and j are in one block: always in global mode, and in per-section
\* mode when no header lies from one to the other
SameBlock(i, j) ==
    cfg.perSection =>
        \A k \in (IF i < j THEN i ELSE j)..(IF i < j THEN j ELSE i) : ~InputIsHeader(k)

\* line i is one whose '=' the alignment is about
Eligible(i) ==
    \/ InputIsKeyValue(i)
    \/ cfg.includeComments /\ InputIsComment(i) /\ Contains(input[i], EQ)

---------------------------------------------------------------------------
(* C4 *)

\* C4: in the output of alignIni, the eligible lines of one block (key/value
\* lines, and with includeComments the comment lines that hold '=') all have
\* their first '=' at the same column.
AlignmentInvariant ==
    Aligned =>
        \A i, j \in 1..Len(out) :
            (Eligible(i) /\ Eligible(j) /\ SameBlock(i, j)) =>
                Index(out[i], EQ) = Index(out[j], EQ)

\* what the code keeps instead: the key/value lines of one block share the column
AlignmentOfKeyValues ==
    Aligned =>
        \A i, j \in 1..Len(out) :
            (InputIsKeyValue(i) /\ InputIsKeyValue(j) /\ SameBlock(i, j)) =>
                Index(out[i], EQ) = Index(out[j], EQ)

---------------------------------------------------------------------------
(* C6 *)

\* C6: in per-section mode the output lines of a block are alignSection of
\* that block's input lines alone, whatever the other lines are, and a header
\* line is put out as a header.
SectionIsolation ==
    (Aligned /\ cfg.perSection) =>
        /\ Len(out) = Len(input)
        /\ \A lo, hi \in 1..Len(input) :
               IsBlock(lo, hi) =>
                   SubSeq(out, lo, hi) = alignSection(SubSeq(input, lo, hi), cfg.includeComments)
        /\ \A i \in 1..Len(input) :
               InputIsHeader(i) => out[i] = HeaderForm(input[i])

\* C6 happens: two blocks around a header get different columns, and the
\* first block's column is not the one the whole file would give it
SectionIsolationWitness ==
    /\ Aligned
    /\ cfg.perSection
    /\ Len(input) = 3
    /\ InputIsKeyValue(1) /\ InputIsHeader(2) /\ InputIsKeyValue(3)
    /\ Index(out[1], EQ) < Index(out[3], EQ)
    /\ out[1] # alignSection(<<input[1], input[3]>>, cfg.includeComments)[1]

---------------------------------------------------------------------------
(* C7 *)

\* the input lines that are not headers, normalised as alignIni stores them
RECURSIVE NonHeaders(_)
NonHeaders(lines) ==
    IF lines = <<>> THEN <<>>
    ELSE IF IsHeader(TrimSpace(lines[1])) THEN NonHeaders(Tail(lines))
    ELSE <<NormalizeLine(lines[1])>> \o NonHeaders(Tail(lines))

\* C7: a header line is put out in its header form in either mode, also when
\* it holds '=', and the column of the other lines is the one they have
\* without it.
HeaderNeverKeyValue ==
    Aligned =>
        /\ \A i \in 1..Len(out) :
               InputIsHeader(i) => out[i] = HeaderForm(input[i])
        /\ \A i \in 1..Len(out) :
               (~cfg.perSection /\ ~InputIsHeader(i)) =>
                   out[i] = AlignLine(NormalizeLine(input[i]),
                                      MaxKeyLen(NonHeaders(input), cfg.includeComments),
                                      cfg.includeComments)

---------------------------------------------------------------------------
(* C8 *)

\* s is t followed by spaces only
PaddedFrom(s, t) ==
    /\ Len(s) >= Len(t)
    /\ SubSeq(s, 1, Len(t)) = t
    /\ \A k \in (Len(t) + 1)..Len(s) : s[k] = SP

\* C8 as stated: in every mode an input line without '=' is put out, at its
\* index, as the input line less its trailing spaces and tabs.
NoDelimiterPassthrough ==
    Ran =>
        /\ Len(out) = Len(input)
        /\ \A i \in 1..Len(input) :
               ~Contains(input[i], EQ) => out[i] = TrimRight(input[i], CutSet)

\* C8 as amended: that holds of singleSpaceFormat for every line without '=',
\* and of alignIni for the lines without '=' that are no headers and, with
\* includeComments, no comment or blank lines; a comment or blank line is then
\* that line followed by spaces, and a header is put out in its header form.
NoDelimiterPassthroughAmended ==
    Ran =>
        /\ Len(out) = Len(input)
        /\ \A i \in 1..Len(input) :
               ~Contains(input[i], EQ) =>
                   IF cfg.singleSpace
                       THEN out[i] = TrimRight(input[i], CutSet)
                   ELSE IF InputIsHeader(i)
                       THEN out[i] = HeaderForm(input[i])
                   ELSE IF InputIsComment(i) /\ cfg.includeComments
                       THEN PaddedFrom(out[i], TrimRight(input[i], CutSet))
                   ELSE out[i] = TrimRight(input[i], CutSet)

\* C8 happens: an aligned run with includeComments over a line without '=' that
\* is passed through less its trailing tab, a comment or blank line that is
\* padded, and a header without '=' that is rewritten
NoDelimiterWitness ==
    /\ Aligned
    /\ cfg.includeComments
    /\ \E i \in 1..Len(input) :
          /\ ~Contains(input[i], EQ) /\ ~InputIsHeader(i) /\ ~InputIsComment(i)
          /\ out[i] # input[i]
          /\ out[i] = TrimRight(input[i], CutSet)
    /\ \E i \in 1..Len(input) :
          ~Contains(input[i], EQ) /\ InputIsComment(i) /\ Len(out[i]) > Len(input[i])
    /\ \E i \in 1..Len(input) :
          /\ ~Contains(input[i], EQ) /\ InputIsHeader(i)
          /\ out[i] # TrimRight(input[i], CutSet)
          /\ out[i] = HeaderForm(input[i])

---------------------------------------------------------------------------
(* C9 *)

MaxOf(S) == IF S = {} THEN 0 ELSE CHOOSE m \in S : \A x \in S : x <= m

\* the text of line i before its first '=', and after it
Before(line) == Slice(line, 0, Index(line, EQ))
After(line) == SliceFrom(line, Index(line, EQ) + 1)

\* the lines of the block of line i that are eligible
EligibleWith(i) == {j \in 1..Len(input) : Eligible(j) /\ SameBlock(i, j)}

\* maxCol as the claim has it: the largest offset of the first '=' from the
\* start of the line
RawMaxCol(i) == MaxOf({Index(input[j], EQ) : j \in EligibleWith(i)})

\* C9 as stated: a key/value line is its text before the '=', then
\* maxCol - pos spaces, then '=', then its text after the '='.
RawOffsetRewrite ==
    Aligned =>
        /\ Len(out) = Len(input)
        /\ \A i \in 1..Len(input) :
               InputIsKeyValue(i) =>
                   out[i] = TrimRight(Before(input[i])
                                \o Repeat(SP, RawMaxCol(i) - Index(input[i], EQ))
                                \o <<EQ>> \o After(input[i]), CutSet)

\* the lines alignSection is given together with line i: the block of line i
\* in per-section mode, every line in global mode
GivenWith(i) ==
    {j \in 1..Len(input) : cfg.perSection => (~InputIsHeader(j) /\ SameBlock(i, j))}

\* line j, as alignSection is given it, counts for the column
Contributes(j) ==
    /\ Contains(NormalizeLine(input[j]), EQ)
    /\ cfg.includeComments \/ ~InputIsComment(j)

\* the largest length of the trimmed text before the '='
TrimmedMaxKeyLen(i) ==
    MaxOf({Len(TrimSpace(Before(NormalizeLine(input[j])))) :
              j \in {k \in GivenWith(i) : Contributes(k)}})

\* "key1      = val1", "longerkey = val2", "k         = v"
ScenarioBasicOut ==
    << <<"k", "e", "y", "1", SP, SP, SP, SP, SP, SP, EQ, SP, "v", "a", "l", "1">>,
       <<"l", "o", "n", "g", "e", "r", "k", "e", "y", SP, EQ, SP, "v", "a", "l", "2">>,
       <<"k", SP, SP, SP, SP, SP, SP, SP, SP, SP, EQ, SP, "v">> >>

\* C9 as amended: the column comes from maxKeyLen, the largest length of the
\* trimmed text before the first '=' among the lines alignSection is given
\* that count, and a key/value line is its trimmed key, then
\* maxKeyLen - len(key) spaces, then " = ", then its text after the '=' with
\* every run of white space made one space and none at the ends.  The example
\* gives "key1      = val1", "longerkey = val2", "k         = v".
TrimmedKeyRewrite ==
    Aligned =>
        /\ Len(out) = Len(input)
        /\ \A i \in 1..Len(input) :
               InputIsKeyValue(i) =>
                   LET key == TrimSpace(Before(input[i]))
                   IN  out[i] = key \o Repeat(SP, TrimmedMaxKeyLen(i) - Len(key))
                                    \o Delim \o Join(Fields(After(input[i])), <<SP>>)
        /\ input = ScenarioBasic => out = ScenarioBasicOut

\* C9 happens: the example has run in global mode, and so has an input where a
\* key stands after white space, which the raw offset would count
TrimmedKeyRewriteWitness ==
    /\ Aligned
    /\ \/ input = ScenarioBasic /\ ~cfg.perSection /\ ~cfg.includeComments
       \/ /\ Len(input) >= 2
          /\ \E i, j \in 1..Len(input) :
                /\ i # j /\ InputIsKeyValue(i) /\ InputIsKeyValue(j)
                /\ HasPrefix(input[i], SP)
                /\ Index(out[i], EQ) # Index(input[i], EQ)

===========================================================================
